---- MODULE Spec2Model ----
(***************************************************************************)
(* Model of v2/contact_calc/compute_contacts_memory_intensive.py:          *)
(* compute_dynamic_contacts splits a trajectory into fragments, runs       *)
(* compute_fragment_contacts on each fragment in a multiprocessing Pool,   *)
(* sorts the results by fragment index, renumbers the frames globally and  *)
(* writes one file per observed interaction type.                          *)
(***************************************************************************)
EXTENDS Integers, Sequences, FiniteSets, TLC

(***************************************************************************)
(* Bounds of the model.                                                    *)
(***************************************************************************)
MaxSimLength == 2
MaxFragSize == 2
MaxCores == 2

(***************************************************************************)
(* Interaction type flags, as sequences of characters so that              *)
(* itype.strip("-") is computed and not assumed.                           *)
(***************************************************************************)
SB == <<"-", "s", "b">>
PC == <<"-", "p", "c">>
PS == <<"-", "p", "s">>
TS == <<"-", "t", "s">>
VDW == <<"-", "v", "d", "w">>
HB == <<"-", "h", "b">>
LHB == <<"-", "l", "h", "b">>
UNKNOWN == <<"-", "x", "x">>

\* The order of the if-statements of compute_frame_contacts.
DetectorOrder == <<SB, PC, PS, TS, VDW, HB, LHB>>

\* The lists of requested interaction types the model runs with.
Requests == { <<SB>>, <<HB, SB>>, <<HB, UNKNOWN, HB>> }

VARIABLES
    sim_length,        \* estimate_simulation_length(TOP, TRAJ)
    TRAJ_FRAG_SIZE,    \* module-level global
    cores,             \* Pool(processes=cores)
    ITYPES,            \* requested interaction types
    pc,                \* position of compute_dynamic_contacts
    input_args,        \* the descriptors handed to pool.map
    next_task,         \* index of the next descriptor a worker takes
    worker,            \* per worker process: the locals of compute_fragment_contacts
    loaded,            \* fragments loaded by load_traj and not deleted
    errors,            \* fragment indices whose task raised
    output,            \* results returned by the workers, in completion order
    full_output,       \* assembled contacts
    contact_types,     \* set of itypes seen during assembly
    num_frames,        \* running global frame offset
    fi,                \* assembly cursor: position in output
    ci,                \* assembly cursor: position in output[fi].contacts
    dir_exists,        \* os.path.exists(OUTPUT_DIR)
    fd_map,            \* itype -> name of the file opened for it
    files,             \* file name -> lines of the file
    wi,                \* write cursor: position in full_output
    frag_log,          \* history: per fragment, the frames loaded and the calls of compute_frame_contacts
    arrival,           \* history: the results as the workers returned them, in completion order
    deleted,           \* history: fragments passed to molecule.delete
    assembly_log,      \* history: one entry per rewrite of a contact's frame index
    consumed,          \* history: the fragment indices whose results the assembly loop has finished
    rerun,             \* TRUE in a second call of compute_dynamic_contacts with the same arguments
    prev_log,          \* in a second call: what the loader and the detectors returned in the first
    prev_files         \* the files of OUTPUT_DIR when the call started

vars == <<sim_length, TRAJ_FRAG_SIZE, cores, ITYPES, pc, input_args, next_task,
          worker, loaded, errors, output, full_output, contact_types,
          num_frames, fi, ci, dir_exists, fd_map, files, wi, frag_log,
          arrival, deleted, assembly_log, consumed, rerun, prev_log, prev_files>>

\* what a call is started with: its arguments, the trajectory as the
\* deterministic loader and detectors see it, the directory as it was found
inputs == <<sim_length, TRAJ_FRAG_SIZE, cores, ITYPES, rerun, prev_log, prev_files>>
poolVars == <<next_task, worker, loaded, errors, output, frag_log, arrival, deleted>>
asmVars == <<full_output, contact_types, num_frames, fi, ci, assembly_log, consumed>>
outVars == <<dir_exists, fd_map, files, wi>>

(***************************************************************************)
(* Helpers                                                                 *)
(***************************************************************************)
Range(s) == { s[i] : i \in DOMAIN s }

\* range(start, stop, step) of Python for step > 0, as the iteration yields it
RECURSIVE PyRange(_, _, _)
PyRange(start, stop, step) ==
    IF start >= stop THEN <<>> ELSE <<start>> \o PyRange(start + step, stop, step)

\* str.strip("-"): removes leading and trailing "-" characters
RECURSIVE LStrip(_)
LStrip(s) == IF s # <<>> /\ s[1] = "-" THEN LStrip(Tail(s)) ELSE s

RECURSIVE RStrip(_)
RStrip(s) == IF s # <<>> /\ s[Len(s)] = "-" THEN RStrip(SubSeq(s, 1, Len(s) - 1)) ELSE s

Strip(s) == RStrip(LStrip(s))

\* variant: the path does not depend on the itype
FileNameFixed(itype) == <<"contacts", ".txt">>

\* the path OUTPUT_DIR + "/" + itype.strip("-") + ".txt", OUTPUT_DIR left implicit
FileName(itype) == Strip(itype) \o <<".txt">>

(***************************************************************************)
(* Contacts and the external detectors                                     *)
(***************************************************************************)
\* a contact is the list [frame_index, atom1_label, atom2_label, itype]
Contact(frame, a1, a2, itype) == <<frame, a1, a2, itype>>

\* What one detector call can return for a frame: a list of contacts of the
\* detector's type carrying the local frame index.
DetectorResults(flag, frame_idx) ==
    { <<>>, << Contact(frame_idx, "A:ASP:1:CA:1", "A:LYS:2:NZ:9", Strip(flag)) >> }

\* variant: the detectors are invoked as the request lists them, one call
\* per entry of the request
RECURSIVE FrameRunsInRequestOrder(_, _, _)
FrameRunsInRequestOrder(i, itypes, frame_idx) ==
    IF i > Len(itypes)
    THEN { [ok |-> TRUE, contacts |-> <<>>, invoked |-> <<>>, results |-> <<>>] }
    ELSE IF itypes[i] \notin Range(DetectorOrder)
    THEN FrameRunsInRequestOrder(i + 1, itypes, frame_idx)
    ELSE { [ok |-> FALSE, contacts |-> <<>>, invoked |-> <<itypes[i]>>,
            results |-> <<>>] }
         \cup
         { [ok |-> rest.ok,
            contacts |-> IF rest.ok THEN r \o rest.contacts ELSE <<>>,
            invoked |-> <<itypes[i]>> \o rest.invoked,
            results |-> IF rest.ok THEN <<r>> \o rest.results ELSE <<>>] :
              r \in DetectorResults(itypes[i], frame_idx),
              rest \in FrameRunsInRequestOrder(i + 1, itypes, frame_idx) }

\* compute_frame_contacts: the set of its possible runs for one frame.  Each
\* run records whether it returned (ok), the contacts returned, the
\* detectors invoked, in order, and what each of them returned.
RECURSIVE FrameRuns(_, _, _)
FrameRuns(i, itypes, frame_idx) ==
    IF i > Len(DetectorOrder)
    THEN { [ok |-> TRUE, contacts |-> <<>>, invoked |-> <<>>, results |-> <<>>] }
    ELSE IF DetectorOrder[i] \notin Range(itypes)
    THEN FrameRuns(i + 1, itypes, frame_idx)
    ELSE { [ok |-> FALSE, contacts |-> <<>>, invoked |-> <<DetectorOrder[i]>>,
            results |-> <<>>] }
         \cup
         { [ok |-> rest.ok,
            contacts |-> IF rest.ok THEN r \o rest.contacts ELSE <<>>,
            invoked |-> <<DetectorOrder[i]>> \o rest.invoked,
            results |-> IF rest.ok THEN <<r>> \o rest.results ELSE <<>>] :
              r \in DetectorResults(DetectorOrder[i], frame_idx),
              rest \in FrameRuns(i + 1, itypes, frame_idx) }

compute_frame_contacts(itypes, frame_idx) == FrameRuns(1, itypes, frame_idx)

(***************************************************************************)
(* Scheduler: lines 184-188                                                *)
(***************************************************************************)
\* variant: end_frame clamped to the total frame count
FragmentArgsClamped(T, S) ==
    LET begs == PyRange(0, T, S)
    IN  [k \in 1..Len(begs) |->
            [frag_idx |-> k - 1, beg_frame |-> begs[k],
             end_frame |-> IF begs[k] + S > T THEN T ELSE begs[k] + S]]

\* variant: end_frame taken as an inclusive bound one past the window
FragmentArgsOverlap(T, S) ==
    LET begs == PyRange(0, T, S)
    IN  [k \in 1..Len(begs) |->
            [frag_idx |-> k - 1, beg_frame |-> begs[k], end_frame |-> begs[k] + S + 1]]

FragmentArgs(T, S) ==
    LET begs == PyRange(0, T, S)
    IN  [k \in 1..Len(begs) |->
            [frag_idx |-> k - 1, beg_frame |-> begs[k], end_frame |-> begs[k] + S]]

(***************************************************************************)
(* sorted(output, key = lambda x: x[0]): stable insertion sort             *)
(***************************************************************************)
RECURSIVE InsertByIdx(_, _)
InsertByIdx(r, s) ==
    IF s = <<>> THEN <<r>>
    ELSE IF r.frag_idx < s[1].frag_idx THEN <<r>> \o s
    ELSE <<s[1]>> \o InsertByIdx(r, Tail(s))

RECURSIVE SortedByIdx(_)
SortedByIdx(s) ==
    IF s = <<>> THEN <<>>
    ELSE InsertByIdx(s[Len(s)], SortedByIdx(SubSeq(s, 1, Len(s) - 1)))

\* variant: the results are used in the order the pool delivered them
unsorted(s) == s

sorted(s) == SortedByIdx(s)

(***************************************************************************)
(* Initial state                                                           *)
(***************************************************************************)
Workers == 1..MaxCores

\* The frame counts molecule.numframes can report for the molecule that
\* load_traj(TOP, TRAJ, beg_frame, end_frame, stride) returns: the reference
\* frame plus at most the frames of the window, or fewer (none at all included).
numframes(beg_frame, end_frame) == 0..(end_frame - beg_frame + 1)

\* variant: the loop starts at the reference frame
FrameLoopFromZero(n) == PyRange(0, n, 1)

\* range(1, num_frag_frames), line 129
FrameLoop(n) == PyRange(1, n, 1)

IdleWorker == [state |-> "idle", frag_idx |-> -1, num_frag_frames |-> 0,
               todo |-> <<>>, fragment_contacts |-> <<>>]

NoLog == [numframes |-> -1, takers |-> <<>>, calls |-> <<>>, invoked |-> <<>>,
          returned |-> <<>>, ok |-> <<>>, detected |-> <<>>]

Init ==
    /\ sim_length \in 0..MaxSimLength
    /\ TRAJ_FRAG_SIZE \in 1..MaxFragSize
    /\ cores \in 1..MaxCores
    /\ ITYPES \in Requests
    /\ pc = "schedule"
    /\ input_args = <<>>
    /\ next_task = 1
    /\ worker = [w \in Workers |-> IdleWorker]
    /\ loaded = {}
    /\ errors = {}
    /\ output = <<>>
    /\ full_output = <<>>
    /\ contact_types = {}
    /\ num_frames = 0
    /\ fi = 1
    /\ ci = 1
    /\ dir_exists = FALSE
    /\ fd_map = <<>>
    /\ files = <<>>
    /\ wi = 1
    /\ frag_log = <<>>
    /\ arrival = <<>>
    /\ deleted = {}
    /\ assembly_log = <<>>
    /\ consumed = <<>>
    /\ rerun = FALSE
    /\ prev_log = <<>>
    /\ prev_files = <<>>

(***************************************************************************)
(* compute_dynamic_contacts, lines 184-190: build input_args, create pool  *)
(***************************************************************************)
Schedule ==
    /\ pc = "schedule"
    /\ input_args' = FragmentArgs(sim_length, TRAJ_FRAG_SIZE)
    /\ frag_log' = [k \in 1..Len(input_args') |-> NoLog]
    /\ pc' = "map"
    /\ UNCHANGED <<inputs, next_task, worker, loaded, errors, output, arrival,
                   deleted, asmVars, outVars>>

(***************************************************************************)
(* A pool worker runs compute_fragment_contacts, lines 124-135             *)
(***************************************************************************)
\* variant: the descriptor taken stays in the task queue
LoadTrajSameTask(w) ==
    /\ pc \in {"map", "failed"}
    /\ w <= cores
    /\ worker[w].state = "idle"
    /\ next_task <= Len(input_args)
    /\ \E n \in (IF rerun THEN {prev_log[next_task].numframes}
                ELSE numframes(input_args[next_task].beg_frame,
                               input_args[next_task].end_frame)) :
         /\ worker' = [worker EXCEPT ![w] =
                         [state |-> "loop",
                          frag_idx |-> input_args[next_task].frag_idx,
                          num_frag_frames |-> n,
                          todo |-> FrameLoop(n),
                          fragment_contacts |-> <<>>]]
         /\ frag_log' = [frag_log EXCEPT ![next_task].numframes = n,
                                         ![next_task].takers = Append(@, w)]
    /\ loaded' = loaded \cup {input_args[next_task].frag_idx}
    /\ UNCHANGED <<next_task, inputs, pc, input_args, errors, output, arrival, deleted,
                   asmVars, outVars>>

\* lines 124-129: take the next descriptor; load_traj returns a molecule
\* with n frames; the frame loop is set up
LoadTraj(w) ==
    /\ pc \in {"map", "failed"}
    /\ w <= cores
    /\ worker[w].state = "idle"
    /\ next_task <= Len(input_args)
    /\ \E n \in (IF rerun THEN {prev_log[next_task].numframes}
                ELSE numframes(input_args[next_task].beg_frame,
                               input_args[next_task].end_frame)) :
         /\ worker' = [worker EXCEPT ![w] =
                         [state |-> "loop",
                          frag_idx |-> input_args[next_task].frag_idx,
                          num_frag_frames |-> n,
                          todo |-> FrameLoop(n),
                          fragment_contacts |-> <<>>]]
         /\ frag_log' = [frag_log EXCEPT ![next_task].numframes = n,
                                         ![next_task].takers = Append(@, w)]
    /\ loaded' = loaded \cup {input_args[next_task].frag_idx}
    /\ next_task' = next_task + 1
    /\ UNCHANGED <<inputs, pc, input_args, errors, output, arrival, deleted,
                   asmVars, outVars>>

\* line 124: load_traj raises
LoadTrajFails(w) ==
    /\ pc \in {"map", "failed"}
    /\ ~rerun
    /\ w <= cores
    /\ worker[w].state = "idle"
    /\ next_task <= Len(input_args)
    /\ errors' = errors \cup {input_args[next_task].frag_idx}
    /\ frag_log' = [frag_log EXCEPT ![next_task].takers = Append(@, w)]
    /\ next_task' = next_task + 1
    /\ UNCHANGED <<inputs, pc, input_args, worker, loaded, output,
                   arrival, deleted, asmVars, outVars>>

\* the history of one call of compute_frame_contacts
Logged(log, frame_idx, run) ==
    [log EXCEPT !.calls = Append(@, frame_idx),
                !.invoked = Append(@, run.invoked),
                !.returned = Append(@, run.contacts),
                !.ok = Append(@, run.ok),
                !.detected = Append(@, run.results)]

\* lines 129-131: one iteration of the frame loop, compute_frame_contacts returns
FrameContacts(w) ==
    /\ pc \in {"map", "failed"}
    /\ worker[w].state = "loop"
    /\ worker[w].todo # <<>>
    /\ LET frame_idx == Head(worker[w].todo)
       IN  \E run \in compute_frame_contacts(ITYPES, frame_idx) :
             /\ run.ok
             /\ rerun => run.contacts =
                    prev_log[worker[w].frag_idx + 1].returned[
                        Len(frag_log[worker[w].frag_idx + 1].calls) + 1]
             /\ worker' = [worker EXCEPT
                             ![w].fragment_contacts = @ \o run.contacts,
                             ![w].todo = Tail(@)]
             /\ frag_log' = [frag_log EXCEPT ![worker[w].frag_idx + 1] =
                                Logged(@, frame_idx, run)]
    /\ UNCHANGED <<inputs, pc, input_args, next_task, loaded, errors, output,
                   arrival, deleted, asmVars, outVars>>

\* lines 129-131: a detector raises inside compute_frame_contacts; the
\* exception leaves compute_fragment_contacts, line 134 is not reached
FrameContactsFails(w) ==
    /\ pc \in {"map", "failed"}
    /\ ~rerun
    /\ worker[w].state = "loop"
    /\ worker[w].todo # <<>>
    /\ LET frame_idx == Head(worker[w].todo)
       IN  \E run \in compute_frame_contacts(ITYPES, frame_idx) :
             /\ ~run.ok
             /\ frag_log' = [frag_log EXCEPT ![worker[w].frag_idx + 1] =
                                Logged(@, frame_idx, run)]
    /\ errors' = errors \cup {worker[w].frag_idx}
    /\ worker' = [worker EXCEPT ![w] = IdleWorker]
    /\ UNCHANGED <<inputs, pc, input_args, next_task, loaded, output,
                   arrival, deleted, asmVars, outVars>>

\* variant: the count of loaded frames is returned as it is
FragmentResultRawCount(frag_idx, num_frag_frames, fragment_contacts) ==
    [frag_idx |-> frag_idx, num_frag_frames |-> num_frag_frames,
     contacts |-> fragment_contacts]

\* the tuple returned at line 135
FragmentResult(frag_idx, num_frag_frames, fragment_contacts) ==
    [frag_idx |-> frag_idx, num_frag_frames |-> num_frag_frames - 1,
     contacts |-> fragment_contacts]

\* lines 134-135: the loop is over, delete the molecule and return the result
DeleteAndReturn(w) ==
    /\ pc \in {"map", "failed"}
    /\ worker[w].state = "loop"
    /\ worker[w].todo = <<>>
    /\ loaded' = loaded \ {worker[w].frag_idx}
    /\ deleted' = deleted \cup {worker[w].frag_idx}
    /\ LET res == FragmentResult(worker[w].frag_idx, worker[w].num_frag_frames,
                                 worker[w].fragment_contacts)
       IN  /\ output' = Append(output, res)
           /\ arrival' = Append(arrival, res)
    /\ worker' = [worker EXCEPT ![w] = IdleWorker]
    /\ UNCHANGED <<inputs, pc, input_args, next_task, errors, frag_log,
                   asmVars, outVars>>

(***************************************************************************)
(* compute_dynamic_contacts, lines 191-193: pool.map returns or raises     *)
(***************************************************************************)
\* variant: the first result ends the wait
AnyReturned == output # <<>> \/ input_args = <<>>

AllReturned == Len(output) + Cardinality(errors) = Len(input_args)

\* variant: the caller waits for a result of every task, the failed included
MapRaisesAwaitsResults ==
    /\ pc = "map"
    /\ errors # {}
    /\ Len(output) = Len(input_args)
    /\ pc' = "failed"
    /\ UNCHANGED <<inputs, input_args, poolVars, asmVars, outVars>>

\* line 191: the exception of a failed task is raised in the caller
MapRaises ==
    /\ pc = "map"
    /\ errors # {}
    /\ pc' = "failed"
    /\ UNCHANGED <<inputs, input_args, poolVars, asmVars, outVars>>

\* variant: a failed task is dropped and the results of the others are used
MapReturnsDespiteErrors ==
    /\ pc = "map"
    /\ AllReturned
    /\ pc' = "sort"
    /\ UNCHANGED <<inputs, input_args, poolVars, asmVars, outVars>>

\* lines 191-193: every task has returned; close and join the pool
MapReturns ==
    /\ pc = "map"
    /\ errors = {}
    /\ AllReturned
    /\ pc' = "sort"
    /\ UNCHANGED <<inputs, input_args, poolVars, asmVars, outVars>>

(***************************************************************************)
(* lines 197-203: sort by fragment index, initialise the assembly          *)
(***************************************************************************)
SortOutput ==
    /\ pc = "sort"
    /\ output' = sorted(output)
    /\ contact_types' = {}
    /\ full_output' = <<>>
    /\ num_frames' = 0
    /\ fi' = 1
    /\ ci' = 1
    /\ pc' = "assemble"
    /\ UNCHANGED <<inputs, input_args, next_task, worker, loaded, errors,
                   frag_log, arrival, deleted, assembly_log, consumed, outVars>>

\* variant: the local index is taken as 0-based
GlobalFrameZeroBased(offset, local) == offset + local

\* line 206: the new value of c[0]
GlobalFrame(offset, local) == offset + local - 1

\* lines 205-208: one iteration of the inner loop; c is rewritten in place
AssembleContact ==
    /\ pc = "assemble"
    /\ fi <= Len(output)
    /\ ci <= Len(output[fi].contacts)
    /\ LET c == output[fi].contacts[ci]
           c2 == [c EXCEPT ![1] = GlobalFrame(num_frames, c[1])]
       IN  /\ output' = [output EXCEPT ![fi].contacts[ci] = c2]
           /\ full_output' = Append(full_output, c2)
           /\ contact_types' = contact_types \cup {c2[Len(c2)]}
           /\ assembly_log' = Append(assembly_log,
                                [frag_idx |-> output[fi].frag_idx, pos |-> ci,
                                 before |-> c, after |-> c2, offset |-> num_frames])
    /\ ci' = ci + 1
    /\ UNCHANGED <<inputs, pc, input_args, next_task, worker, loaded, errors,
                   frag_log, arrival, deleted, num_frames, fi, consumed, outVars>>

\* variant: the offset advances by the number of contacts, not of frames
AssembleNextFragmentByContacts ==
    /\ pc = "assemble"
    /\ fi <= Len(output)
    /\ ci > Len(output[fi].contacts)
    /\ num_frames' = num_frames + Len(output[fi].contacts)
    /\ fi' = fi + 1
    /\ ci' = 1
    /\ consumed' = Append(consumed, output[fi].frag_idx)
    /\ UNCHANGED <<inputs, pc, input_args, poolVars, full_output, contact_types,
                   assembly_log, outVars>>

\* line 209: the inner loop is over, advance the offset
AssembleNextFragment ==
    /\ pc = "assemble"
    /\ fi <= Len(output)
    /\ ci > Len(output[fi].contacts)
    /\ num_frames' = num_frames + output[fi].num_frag_frames
    /\ fi' = fi + 1
    /\ ci' = 1
    /\ consumed' = Append(consumed, output[fi].frag_idx)
    /\ UNCHANGED <<inputs, pc, input_args, poolVars, full_output, contact_types,
                   assembly_log, outVars>>

(***************************************************************************)
(* lines 213-219: output                                                   *)
(***************************************************************************)
\* variant: the output starts while fragments are still to be assembled
MakeOutputDirEarly ==
    /\ pc = "assemble"
    /\ dir_exists' = TRUE
    /\ pc' = "open"
    /\ UNCHANGED <<inputs, input_args, poolVars, asmVars, fd_map, files, wi>>

\* lines 213-214: the outer loop is over; create the directory if missing
MakeOutputDir ==
    /\ pc = "assemble"
    /\ fi > Len(output)
    /\ dir_exists' = TRUE
    /\ pc' = "open"
    /\ UNCHANGED <<inputs, input_args, poolVars, asmVars, fd_map, files, wi>>

\* variant: the files are opened for appending
OpenFilesAppending ==
    /\ pc = "open"
    /\ fd_map' = [t \in contact_types |-> FileName(t)]
    /\ LET opened == { FileName(t) : t \in contact_types }
       IN  files' = [f \in (DOMAIN files) \cup opened |->
                        IF f \in DOMAIN files THEN files[f] ELSE <<>>]
    /\ wi' = 1
    /\ pc' = "write"
    /\ UNCHANGED <<inputs, input_args, poolVars, asmVars, dir_exists>>

\* variant: one file per requested type as well
OpenFilesRequested ==
    /\ pc = "open"
    /\ LET types == contact_types \cup { Strip(ITYPES[i]) : i \in DOMAIN ITYPES }
           opened == { FileName(t) : t \in types }
       IN  /\ fd_map' = [t \in types |-> FileName(t)]
           /\ files' = [f \in (DOMAIN files) \cup opened |->
                           IF f \in opened THEN <<>> ELSE files[f]]
    /\ wi' = 1
    /\ pc' = "write"
    /\ UNCHANGED <<inputs, input_args, poolVars, asmVars, dir_exists>>

\* line 216: open(..., 'w') creates or truncates one file per observed itype
OpenFiles ==
    /\ pc = "open"
    /\ fd_map' = [t \in contact_types |-> FileName(t)]
    /\ LET opened == { FileName(t) : t \in contact_types }
       IN  files' = [f \in (DOMAIN files) \cup opened |->
                        IF f \in opened THEN <<>> ELSE files[f]]
    /\ wi' = 1
    /\ pc' = "write"
    /\ UNCHANGED <<inputs, input_args, poolVars, asmVars, dir_exists>>

\* "\t".join(map(str, contact)) + "\n": the line keeps the fields in order
Line(contact) == [k \in 1..Len(contact) |-> contact[k]]

\* variant: the line is put at the front of the file
WriteContactAtFront ==
    /\ pc = "write"
    /\ wi <= Len(full_output)
    /\ LET contact == full_output[wi]
           itype_key == contact[Len(contact)]
       IN  files' = [files EXCEPT ![fd_map[itype_key]] = <<Line(contact)>> \o @]
    /\ wi' = wi + 1
    /\ UNCHANGED <<inputs, pc, input_args, poolVars, asmVars, dir_exists, fd_map>>

\* lines 217-219: one iteration of the write loop
WriteContact ==
    /\ pc = "write"
    /\ wi <= Len(full_output)
    /\ LET contact == full_output[wi]
           itype_key == contact[Len(contact)]
       IN  files' = [files EXCEPT ![fd_map[itype_key]] = Append(@, Line(contact))]
    /\ wi' = wi + 1
    /\ UNCHANGED <<inputs, pc, input_args, poolVars, asmVars, dir_exists, fd_map>>

\* the write loop is over, compute_dynamic_contacts returns
Finish ==
    /\ pc = "write"
    /\ wi > Len(full_output)
    /\ pc' = "done"
    /\ UNCHANGED <<inputs, input_args, poolVars, asmVars, outVars>>

(***************************************************************************)
(* A second call of compute_dynamic_contacts with the same arguments into  *)
(* the same OUTPUT_DIR, by a single worker.  The loader and the detectors  *)
(* are deterministic: they return what they returned in the first call.    *)
(***************************************************************************)
Rerun ==
    /\ pc = "done"
    /\ ~rerun
    /\ cores = 1
    /\ rerun' = TRUE
    /\ prev_log' = frag_log
    /\ prev_files' = files
    /\ pc' = "schedule"
    /\ input_args' = <<>>
    /\ next_task' = 1
    /\ worker' = [w \in Workers |-> IdleWorker]
    /\ loaded' = {}
    /\ errors' = {}
    /\ output' = <<>>
    /\ full_output' = <<>>
    /\ contact_types' = {}
    /\ num_frames' = 0
    /\ fi' = 1
    /\ ci' = 1
    /\ fd_map' = <<>>
    /\ wi' = 1
    /\ frag_log' = <<>>
    /\ arrival' = <<>>
    /\ deleted' = {}
    /\ assembly_log' = <<>>
    /\ consumed' = <<>>
    /\ UNCHANGED <<sim_length, TRAJ_FRAG_SIZE, cores, ITYPES, dir_exists, files>>

Next ==
    \/ Rerun
    \/ Schedule
    \/ \E w \in Workers : LoadTraj(w)
    \/ \E w \in Workers : LoadTrajFails(w)
    \/ \E w \in Workers : FrameContacts(w)
    \/ \E w \in Workers : FrameContactsFails(w)
    \/ \E w \in Workers : DeleteAndReturn(w)
    \/ MapRaises
    \/ MapReturns
    \/ SortOutput
    \/ AssembleContact
    \/ AssembleNextFragment
    \/ MakeOutputDir
    \/ OpenFiles
    \/ WriteContact
    \/ Finish

Spec == Init /\ [][Next]_vars

\* the steps of the process that called compute_dynamic_contacts
MainStep ==
    \/ Schedule
    \/ MapRaises
    \/ MapReturns
    \/ SortOutput
    \/ AssembleContact
    \/ AssembleNextFragment
    \/ MakeOutputDir
    \/ OpenFiles
    \/ WriteContact
    \/ Finish

\* the steps of pool worker w
WorkerStep(w) ==
    \/ LoadTraj(w)
    \/ LoadTrajFails(w)
    \/ FrameContacts(w)
    \/ FrameContactsFails(w)
    \/ DeleteAndReturn(w)

\* Every load and every detector call terminates, and the operating system
\* schedules the caller and every pool worker fairly.  A second call is never
\* forced.
FairSpec ==
    /\ Spec
    /\ WF_vars(MainStep)
    /\ \A w \in Workers : WF_vars(WorkerStep(w))

TypeOK == pc \in {"schedule", "map", "failed", "sort", "assemble", "open", "write", "done"}

(***************************************************************************)
(* Definitions used by the properties                                      *)
(***************************************************************************)
NumFragments == Len(input_args)

AssemblyStarted == pc \in {"assemble", "open", "write", "done"}
AssemblyFinished == pc \in {"open", "write", "done"}

\* the result the worker returned for fragment k, whenever it arrived
ResultOf(k) == CHOOSE r \in Range(arrival) : r.frag_idx = k

UsableOf(k) == ResultOf(k).num_frag_frames

\* sum of the usable frame counts of the fragments with an index below k
RECURSIVE OffsetOf(_)
OffsetOf(k) == IF k = 0 THEN 0 ELSE OffsetOf(k - 1) + UsableOf(k - 1)

TotalUsable == OffsetOf(NumFragments)

CarriedIdx == { full_output[i][1] : i \in DOMAIN full_output }

AllLoadedAFrame == \A r \in Range(arrival) : r.num_frag_frames >= 0

RECURSIVE Flatten(_)
Flatten(ss) == IF ss = <<>> THEN <<>> ELSE Head(ss) \o Flatten(Tail(ss))

CeilDiv(a, b) == IF a % b = 0 THEN a \div b ELSE (a \div b) + 1

Window(a) == a.beg_frame .. (a.end_frame - 1)

(***************************************************************************)
(* C1                                                                      *)
(***************************************************************************)
\* C1 as stated: once the results are assembled, the set of global frame
\* indices carried by the assembled contacts is exactly [0, total_usable_frames).
C1_CarriedIsWholeRange ==
    AssemblyFinished => CarriedIdx = 0..(TotalUsable - 1)

\* C1 amended: every assembled contact of fragment k carries an index in
\* [offset_k, offset_k + usable_k), offset_k being the sum of the usable frame
\* counts of the fragments below k.  When every loader returned at least one
\* frame these ranges tile [0, total_usable_frames), contacts of different
\* frames never share an index, and an index of the range is carried by no
\* contact exactly when its frame produced no contact.
C1_GlobalFrames ==
    AssemblyFinished =>
      /\ CarriedIdx = { assembly_log[i].after[1] : i \in DOMAIN assembly_log }
      /\ \A i \in DOMAIN assembly_log :
           LET e == assembly_log[i]
           IN  /\ e.after[1] >= OffsetOf(e.frag_idx)
               /\ e.after[1] < OffsetOf(e.frag_idx) + UsableOf(e.frag_idx)
      /\ AllLoadedAFrame =>
           /\ CarriedIdx \subseteq 0..(TotalUsable - 1)
           /\ \A i, j \in DOMAIN assembly_log :
                assembly_log[i].after[1] = assembly_log[j].after[1] =>
                  /\ assembly_log[i].frag_idx = assembly_log[j].frag_idx
                  /\ assembly_log[i].before[1] = assembly_log[j].before[1]
           /\ \A g \in 0..(TotalUsable - 1) :
                \E k \in 0..(NumFragments - 1) :
                  \E l \in 1..UsableOf(k) :
                    /\ OffsetOf(k) + l - 1 = g
                    /\ (g \in CarriedIdx) <=> (frag_log[k + 1].returned[l] # <<>>)

\* Two fragments, each with one usable frame; only the second produced a
\* contact, so index 0 is missing from the carried set.
C1_Witness ==
    /\ pc = "done"
    /\ NumFragments = 2
    /\ AllLoadedAFrame
    /\ TotalUsable = 2
    /\ CarriedIdx = {1}

(***************************************************************************)
(* C2                                                                      *)
(***************************************************************************)
\* the contacts of fragment k renumbered with the offset of fragment k
Renumbered(k) ==
    LET cs == ResultOf(k).contacts
    IN  [i \in 1..Len(cs) |-> [cs[i] EXCEPT ![1] = OffsetOf(k) + cs[i][1] - 1]]

\* the assembled list as a function of the per-fragment results alone,
\* taken by fragment index 0, 1, ...
RECURSIVE AssembledFrom(_)
AssembledFrom(k) ==
    IF k >= NumFragments THEN <<>> ELSE Renumbered(k) \o AssembledFrom(k + 1)

\* C2: the assembled contact list is determined by the per-fragment results
\* alone; the order in which the workers completed does not enter it.
C2_CompletionOrderIrrelevant ==
    AssemblyFinished => full_output = AssembledFrom(0)

\* Fragment 1 completed before fragment 0, both produced contacts.
C2_Witness ==
    /\ pc = "done"
    /\ Len(arrival) = 2
    /\ arrival[1].frag_idx = 1
    /\ arrival[2].frag_idx = 0
    /\ arrival[1].contacts # <<>>
    /\ arrival[2].contacts # <<>>

(***************************************************************************)
(* C3                                                                      *)
(***************************************************************************)
\* C3: once a fragment has failed in a worker, assembly never starts, no
\* result is consumed and no output directory or file is created or written.
C3_FailureAbortsRun ==
    errors # {} =>
      /\ pc \in {"map", "failed"}
      /\ assembly_log = <<>>
      /\ full_output = <<>>
      /\ contact_types = {}
      /\ ~dir_exists
      /\ fd_map = <<>>
      /\ files = <<>>

\* The run has failed although another fragment returned a result.
C3_Witness ==
    /\ pc = "failed"
    /\ errors # {}
    /\ arrival # <<>>
    /\ next_task > NumFragments
    /\ \A w \in Workers : worker[w].state = "idle"

(***************************************************************************)
(* C4                                                                      *)
(***************************************************************************)
\* C4: the assembler (sort included) runs only when every scheduled fragment
\* has been taken, has completed and has returned its result.
C4_PoolBarrier ==
    (pc = "sort" \/ AssemblyStarted \/ assembly_log # <<>>) =>
      /\ next_task > NumFragments
      /\ \A w \in Workers : worker[w].state = "idle"
      /\ Len(arrival) = NumFragments
      /\ { arrival[i].frag_idx : i \in DOMAIN arrival } =
           { input_args[i].frag_idx : i \in DOMAIN input_args }

\* The assembler has consumed a contact of a run with two fragments.
C4_Witness ==
    /\ pc = "assemble"
    /\ NumFragments = 2
    /\ assembly_log # <<>>

(***************************************************************************)
(* C5                                                                      *)
(***************************************************************************)
LinesOfType(T) ==
    LET IsT(c) == c[Len(c)] = T
        cs == SelectSeq(full_output, IsT)
    IN  [i \in 1..Len(cs) |-> Line(cs[i])]

\* C5: every line in the file opened for type T carries type T; when the run
\* is done the file of T holds the assembled contacts of type T and no other
\* file holds a line of type T.
C5_Partition ==
    /\ \A T \in DOMAIN fd_map :
         \A i \in DOMAIN files[fd_map[T]] : files[fd_map[T]][i][4] = T
    /\ pc = "done" =>
         \A n \in DOMAIN full_output :
           LET T == full_output[n][4]
           IN  /\ T \in DOMAIN fd_map
               /\ files[fd_map[T]] = LinesOfType(T)
               /\ \A f \in (DOMAIN files) \ {fd_map[T]} :
                    \A i \in DOMAIN files[f] : files[f][i][4] # T

\* Two files were written, each with at least one line.
C5_Witness ==
    /\ pc = "done"
    /\ Cardinality(DOMAIN files) = 2
    /\ \A f \in DOMAIN files : files[f] # <<>>

(***************************************************************************)
(* C6                                                                      *)
(***************************************************************************)
\* C6: the scheduler produces the descriptors k = 0 .. ceil(T/S)-1 in
\* ascending order with begin_frame = k*S and end_frame = begin_frame + S,
\* not clamped to T; none for T = 0.
C6_Descriptors ==
    /\ pc # "schedule" =>
         /\ Len(input_args) = CeilDiv(sim_length, TRAJ_FRAG_SIZE)
         /\ \A k \in DOMAIN input_args :
              /\ input_args[k].frag_idx = k - 1
              /\ input_args[k].beg_frame = (k - 1) * TRAJ_FRAG_SIZE
              /\ input_args[k].end_frame = input_args[k].beg_frame + TRAJ_FRAG_SIZE
         /\ sim_length = 0 => input_args = <<>>
    /\ FragmentArgs(2500, 1000) =
         << [frag_idx |-> 0, beg_frame |-> 0, end_frame |-> 1000],
            [frag_idx |-> 1, beg_frame |-> 1000, end_frame |-> 2000],
            [frag_idx |-> 2, beg_frame |-> 2000, end_frame |-> 3000] >>

\* Two descriptors were scheduled.
C6_Witness ==
    /\ pc = "map"
    /\ Len(input_args) = 2
    /\ input_args[2].beg_frame = TRAJ_FRAG_SIZE

(***************************************************************************)
(* C7                                                                      *)
(***************************************************************************)
WindowsDisjointAdjacent ==
    /\ \A i, j \in DOMAIN input_args :
         i # j => Window(input_args[i]) \cap Window(input_args[j]) = {}
    /\ \A i \in DOMAIN input_args :
         i > 1 => input_args[i].beg_frame = input_args[i - 1].end_frame

\* C7 as stated: the windows partition [0, total_frame_count), the last one
\* being shorter when the total is not a multiple of the fragment size.
C7_PartitionOfTotal ==
    pc # "schedule" =>
      /\ WindowsDisjointAdjacent
      /\ UNION { Window(input_args[i]) : i \in DOMAIN input_args } = 0..(sim_length - 1)
      /\ \A i \in DOMAIN input_args :
           i < Len(input_args) =>
             input_args[i].end_frame - input_args[i].beg_frame = TRAJ_FRAG_SIZE

\* C7 amended: the windows are pairwise disjoint and adjacent, every window,
\* the last included, has the fixed fragment size, and their union is
\* [0, ceil(T/S)*S): it covers [0, T) and overshoots T by less than S.
C7_WindowsCoverTotal ==
    pc # "schedule" =>
      /\ WindowsDisjointAdjacent
      /\ \A i \in DOMAIN input_args :
           input_args[i].end_frame - input_args[i].beg_frame = TRAJ_FRAG_SIZE
      /\ UNION { Window(input_args[i]) : i \in DOMAIN input_args } =
           0..(CeilDiv(sim_length, TRAJ_FRAG_SIZE) * TRAJ_FRAG_SIZE - 1)
      /\ 0..(sim_length - 1) \subseteq
           UNION { Window(input_args[i]) : i \in DOMAIN input_args }
      /\ input_args # <<>> =>
           /\ input_args[Len(input_args)].end_frame >= sim_length
           /\ input_args[Len(input_args)].end_frame - sim_length < TRAJ_FRAG_SIZE

\* The last window ends beyond the total frame count.
C7_Witness ==
    /\ pc = "map"
    /\ input_args # <<>>
    /\ input_args[Len(input_args)].end_frame > sim_length

(***************************************************************************)
(* C8                                                                      *)
(***************************************************************************)
\* C8: each contact is rewritten exactly once, from the local index the
\* worker returned to offset + local - 1, the offset being the sum of the
\* usable frame counts of the fragments with a smaller index; the offset
\* advances only between fragments; no other field changes.
C8_RewriteOnce ==
    /\ \A i \in DOMAIN assembly_log :
         LET e == assembly_log[i]
         IN  /\ e.before = ResultOf(e.frag_idx).contacts[e.pos]
             /\ e.offset = OffsetOf(e.frag_idx)
             /\ e.after[1] = e.offset + e.before[1] - 1
             /\ Len(e.after) = Len(e.before)
             /\ \A j \in 2..Len(e.before) : e.after[j] = e.before[j]
             /\ full_output[i] = e.after
             /\ \A j \in DOMAIN assembly_log :
                  (assembly_log[j].frag_idx = e.frag_idx /\ assembly_log[j].pos = e.pos)
                    => j = i
    /\ Len(full_output) = Len(assembly_log)
    /\ (pc = "assemble" /\ fi <= Len(output)) =>
         num_frames = OffsetOf(output[fi].frag_idx)
    /\ AssemblyFinished =>
         /\ num_frames = TotalUsable
         /\ \A r \in Range(arrival) :
              \A p \in DOMAIN r.contacts :
                \E i \in DOMAIN assembly_log :
                  assembly_log[i].frag_idx = r.frag_idx /\ assembly_log[i].pos = p
    /\ GlobalFrame(999, 5) = 1003

\* A contact of fragment 1 was rewritten after fragment 0 contributed one
\* usable frame.
C8_Witness ==
    /\ AssemblyFinished
    /\ \E i \in DOMAIN assembly_log :
         /\ assembly_log[i].frag_idx = 1
         /\ assembly_log[i].offset = 1
         /\ assembly_log[i].before[1] = 1
         /\ assembly_log[i].after[1] = 1

(***************************************************************************)
(* C9                                                                      *)
(***************************************************************************)
\* C9: for a fragment whose loader returned n frames, compute_frame_contacts
\* is called for the local frames 1, 2, ..., n-1 in this order, once each and
\* never for frame 0; the result is (fragment index, n - 1, the contacts of
\* the calls in call order).
C9_FrameLoop ==
    /\ \A k \in DOMAIN frag_log :
         /\ \A i \in DOMAIN frag_log[k].calls : frag_log[k].calls[i] = i
         /\ Len(frag_log[k].calls) <= frag_log[k].numframes - 1
            \/ frag_log[k].calls = <<>>
    /\ \A n \in DOMAIN arrival :
         LET r == arrival[n]
             L == frag_log[r.frag_idx + 1]
         IN  /\ input_args[r.frag_idx + 1].frag_idx = r.frag_idx
             /\ L.numframes >= 0
             /\ r.num_frag_frames = L.numframes - 1
             /\ Len(L.calls) = (IF L.numframes >= 1 THEN L.numframes - 1 ELSE 0)
             /\ r.contacts = Flatten(L.returned)

\* A fragment of three loaded frames returned contacts of frames 1 and 2.
C9_Witness ==
    \E n \in DOMAIN arrival :
      /\ arrival[n].num_frag_frames = 2
      /\ Len(arrival[n].contacts) >= 2
      /\ arrival[n].contacts[1][1] = 1
      /\ arrival[n].contacts[Len(arrival[n].contacts)][1] = 2

(***************************************************************************)
(* C10                                                                     *)
(***************************************************************************)
\* C10: every loaded fragment that has not been deleted belongs to a worker
\* that is still running compute_fragment_contacts on it.
C10_LoadedIsDisposed ==
    \A k \in loaded :
      \E w \in Workers : worker[w].state = "loop" /\ worker[w].frag_idx = k

(***************************************************************************)
(* C11                                                                     *)
(***************************************************************************)
\* the fragments whose loader returned the reference frame only
ReferenceOnly == { k \in 0..(NumFragments - 1) : frag_log[k + 1].numframes = 1 }

\* the offset of fragment k computed as if the fragments of ReferenceOnly
\* did not exist
RECURSIVE OffsetWithoutReferenceOnly(_)
OffsetWithoutReferenceOnly(k) ==
    IF k = 0 THEN 0
    ELSE OffsetWithoutReferenceOnly(k - 1) +
           (IF (k - 1) \in ReferenceOnly THEN 0 ELSE UsableOf(k - 1))

\* C11: a fragment of which only the reference frame was loaded runs no
\* frame, calls no detector, raises no error, returns no contact and a usable
\* count of 0, and the offsets used in assembly are the ones that would be
\* used without it.
C11_ReferenceOnlyFragment ==
    /\ \A k \in ReferenceOnly :
         /\ frag_log[k + 1].calls = <<>>
         /\ frag_log[k + 1].invoked = <<>>
         /\ k \notin errors
    /\ \A n \in DOMAIN arrival :
         arrival[n].frag_idx \in ReferenceOnly =>
           /\ arrival[n].contacts = <<>>
           /\ arrival[n].num_frag_frames = 0
    /\ \A i \in DOMAIN assembly_log :
         /\ assembly_log[i].frag_idx \notin ReferenceOnly
         /\ assembly_log[i].offset = OffsetWithoutReferenceOnly(assembly_log[i].frag_idx)
    /\ AssemblyFinished => num_frames = OffsetWithoutReferenceOnly(NumFragments)

\* Fragment 0 had the reference frame only; the contact of fragment 1 got
\* global frame 0.
C11_Witness ==
    /\ AssemblyFinished
    /\ 0 \in ReferenceOnly
    /\ \E i \in DOMAIN assembly_log :
         /\ assembly_log[i].frag_idx = 1
         /\ assembly_log[i].offset = 0
         /\ assembly_log[i].after[1] = 0

(***************************************************************************)
(* C12                                                                     *)
(***************************************************************************)
ObservedTypes == { full_output[i][4] : i \in DOMAIN full_output }

\* C12: once the files are opened, there is exactly one file per
\* interaction type observed in the assembled contacts, none for a requested
\* type without a contact, and none at all when there is no contact.
C12_FilesFromObservedTypes ==
    pc \in {"write", "done"} =>
      /\ DOMAIN fd_map = ObservedTypes
      /\ DOMAIN files = { FileName(t) : t \in ObservedTypes }
      /\ Cardinality(DOMAIN files) = Cardinality(ObservedTypes)
      /\ \A i \in DOMAIN ITYPES :
           Strip(ITYPES[i]) \notin ObservedTypes =>
             FileName(ITYPES[i]) \notin DOMAIN files
      /\ full_output = <<>> => files = <<>>

\* Hydrogen bonds and salt bridges were requested, only salt bridges were
\* observed: one file.
C12_Witness ==
    /\ pc = "done"
    /\ ITYPES = <<HB, SB>>
    /\ ObservedTypes = {Strip(SB)}
    /\ DOMAIN files = {FileName(SB)}

(***************************************************************************)
(* C13                                                                     *)
(***************************************************************************)
\* the lines of type T among the first n contacts of the per-fragment
\* results taken by fragment index, each fragment in the worker's order
ExpectedLines(T, n) ==
    LET IsT(c) == c[Len(c)] = T
        cs == SelectSeq(SubSeq(AssembledFrom(0), 1, n), IsT)
    IN  [i \in 1..Len(cs) |-> Line(cs[i])]

\* C13: at every point of the write loop the file of a type holds the
\* contacts of this type written so far in the order fragment 0, fragment 1,
\* ..., each fragment in the order its worker produced them, whatever the
\* completion order.
C13_FileOrder ==
    pc \in {"write", "done"} =>
      \A T \in DOMAIN fd_map : files[fd_map[T]] = ExpectedLines(T, wi - 1)

\* Fragment 1 completed first; the file holds the line of fragment 0 before
\* the line of fragment 1.
C13_Witness ==
    /\ pc = "done"
    /\ Len(arrival) = 2
    /\ arrival[1].frag_idx = 1
    /\ \E f \in DOMAIN files :
         /\ Len(files[f]) = 2
         /\ files[f][1][1] = 0
         /\ files[f][2][1] = 1

(***************************************************************************)
(* C14                                                                     *)
(***************************************************************************)
RECURSIVE TotalContacts(_)
TotalContacts(rs) ==
    IF rs = <<>> THEN 0 ELSE Len(Head(rs).contacts) + TotalContacts(Tail(rs))

\* C14: up to the end of assembly no file is opened and the directory's
\* files are as the call found them; whenever a file has been opened or a
\* line written, every fragment has completed and all contacts are assembled.
C14_TwoPhase ==
    /\ pc \in {"schedule", "map", "failed", "sort", "assemble", "open"} =>
         /\ fd_map = <<>>
         /\ files = prev_files
         /\ wi = 1
    /\ (fd_map # <<>> \/ files # prev_files \/ wi > 1 \/ pc \in {"write", "done"}) =>
         /\ \A w \in Workers : worker[w].state = "idle"
         /\ next_task > NumFragments
         /\ Len(arrival) = NumFragments
         /\ errors = {}
         /\ fi > Len(output)
         /\ Len(full_output) = TotalContacts(arrival)

\* Lines are being written in a run of two fragments.
C14_Witness ==
    /\ pc = "write"
    /\ wi > 1
    /\ NumFragments = 2
    /\ fd_map # <<>>

(***************************************************************************)
(* C15                                                                     *)
(***************************************************************************)
Identity(n) == [k \in 1..n |-> k - 1]

\* C15: no fragment is ever taken twice; in a run that got past the pool
\* every descriptor was taken by exactly one worker of the pool and has
\* exactly one result carrying its index; the assembly loop consumes the
\* results 0, 1, ... once each and appends every contact once.
C15_ExactlyOnce ==
    /\ \A k \in DOMAIN frag_log : Len(frag_log[k].takers) <= 1
    /\ (pc = "sort" \/ AssemblyStarted) =>
         /\ \A k \in DOMAIN input_args :
              /\ Len(frag_log[k].takers) = 1
              /\ frag_log[k].takers[1] \in 1..cores
              /\ Cardinality({ i \in DOMAIN arrival :
                                 arrival[i].frag_idx = input_args[k].frag_idx }) = 1
         /\ Len(arrival) = NumFragments
    /\ pc = "assemble" => consumed = Identity(fi - 1)
    /\ AssemblyFinished =>
         /\ consumed = Identity(NumFragments)
         /\ Len(full_output) = TotalContacts(arrival)

\* Two fragments were executed by two different workers and both results
\* were consumed.
C15_Witness ==
    /\ AssemblyFinished
    /\ NumFragments = 2
    /\ frag_log[1].takers # frag_log[2].takers
    /\ consumed = <<0, 1>>
    /\ full_output # <<>>

(***************************************************************************)
(* C16                                                                     *)
(***************************************************************************)
\* C16: a second call with the same arguments, a single worker and loader
\* and detectors returning what they returned before runs into the existing
\* directory without error and ends with the files the first call left.
C16_RerunIdentical ==
    rerun =>
      /\ dir_exists
      /\ pc # "failed"
      /\ pc = "write" =>
           \A T \in DOMAIN fd_map :
             /\ Len(files[fd_map[T]]) <= Len(prev_files[fd_map[T]])
             /\ \A i \in DOMAIN files[fd_map[T]] :
                  files[fd_map[T]][i] = prev_files[fd_map[T]][i]
      /\ pc = "done" => files = prev_files

\* The second call has ended and rewrote two files with lines in them.
C16_Witness ==
    /\ rerun
    /\ pc = "done"
    /\ Cardinality(DOMAIN files) = 2
    /\ \A f \in DOMAIN files : files[f] # <<>>
    /\ files = prev_files

(***************************************************************************)
(* C17                                                                     *)
(***************************************************************************)
\* the requested known types in the fixed order
ExpectedInvoked(itypes) ==
    LET Requested(d) == \E i \in DOMAIN itypes : itypes[i] = d
    IN  SelectSeq(<<SB, PC, PS, TS, VDW, HB, LHB>>, Requested)

IsPrefix(s, t) == Len(s) <= Len(t) /\ \A i \in DOMAIN s : s[i] = t[i]

\* C17: every call of compute_frame_contacts invokes the detectors of the
\* requested known types in the fixed order, each at most once and no other;
\* a call that returns has invoked all of them and returns the concatenation
\* of what they returned, each detector's contacts being of its own type and
\* of the frame of the call.
C17_FrameDetectors ==
    \A k \in DOMAIN frag_log :
      \A i \in DOMAIN frag_log[k].invoked :
        LET L == frag_log[k]
            inv == L.invoked[i]
            exp == ExpectedInvoked(ITYPES)
        IN  /\ IsPrefix(inv, exp)
            /\ \A a, b \in DOMAIN inv : a # b => inv[a] # inv[b]
            /\ \A a \in DOMAIN inv : inv[a] \in Range(ITYPES) /\ inv[a] # UNKNOWN
            /\ L.ok[i] =>
                 /\ inv = exp
                 /\ Len(L.detected[i]) = Len(exp)
                 /\ L.returned[i] = Flatten(L.detected[i])
                 /\ \A j \in DOMAIN L.detected[i] :
                      \A c \in DOMAIN L.detected[i][j] :
                        /\ L.detected[i][j][c][4] = Strip(exp[j])
                        /\ L.detected[i][j][c][1] = L.calls[i]

\* Hydrogen bonds were requested twice, with an unknown code between: one
\* call of the hydrogen-bond detector, whose contact was returned.
C17_Witness ==
    /\ ITYPES = <<HB, UNKNOWN, HB>>
    /\ \E k \in DOMAIN frag_log :
         /\ frag_log[k].ok = <<TRUE>>
         /\ frag_log[k].invoked = << <<HB>> >>
         /\ Len(frag_log[k].returned[1]) = 1

(***************************************************************************)
(* C18                                                                     *)
(***************************************************************************)
\* the workers that are running compute_fragment_contacts
Executing == { w \in Workers : worker[w].state = "loop" }

\* C18: at most cores fragments are being executed and at most cores loaded
\* fragments have not been deleted, whatever the number of fragments.
C18_LoadedBoundedByCores ==
    /\ Cardinality(Executing) <= cores
    /\ \A w \in Executing : w <= cores
    /\ Cardinality(loaded) <= cores

(***************************************************************************)
(* C19                                                                     *)
(***************************************************************************)
\* C19: whatever the loader returned, the offset never decreases from one
\* consumed fragment to the next, every assembled contact has a global frame
\* index of 0 or more, and the global indices of a fragment are all smaller
\* than those of every fragment with a larger index.
C19_OffsetMonotone ==
    AssemblyStarted =>
      /\ \A k \in 1..Len(consumed) : OffsetOf(k) >= OffsetOf(k - 1)
      /\ num_frames >= 0
      /\ \A i \in DOMAIN assembly_log : assembly_log[i].after[1] >= 0
      /\ \A i, j \in DOMAIN assembly_log :
           assembly_log[i].frag_idx < assembly_log[j].frag_idx
             => assembly_log[i].after[1] < assembly_log[j].after[1]

(***************************************************************************)
(* C20                                                                     *)
(***************************************************************************)
\* every fragment completed, assembly finished, every contact written
Completed ==
    /\ pc = "done"
    /\ errors = {}
    /\ Len(arrival) = NumFragments
    /\ Len(consumed) = NumFragments
    /\ Len(full_output) = TotalContacts(arrival)
    /\ wi = Len(full_output) + 1
    /\ \A T \in ObservedTypes : files[fd_map[T]] = LinesOfType(T)

\* the run failed and wrote nothing
Failed ==
    /\ pc = "failed"
    /\ errors # {}
    /\ fd_map = <<>>
    /\ files = prev_files
    /\ wi = 1

\* descriptor k is in the task queue and no worker has taken it
Pending(k) == k \in DOMAIN frag_log /\ frag_log[k].takers = <<>>

\* no descriptor is taken twice, and a failed fragment has no result
NoRetry ==
    /\ \A k \in DOMAIN frag_log : Len(frag_log[k].takers) <= 1
    /\ \A i \in DOMAIN arrival : arrival[i].frag_idx \notin errors

\* C20: under fair scheduling a run eventually is completed, with every
\* assembled contact written, or failed, with nothing written; a pending
\* fragment is eventually taken unless the run fails, and no fragment is
\* ever taken a second time.
C20_Terminates ==
    /\ <>(Completed \/ Failed)
    /\ []NoRetry
    /\ \A k \in 1..(MaxSimLength + 1) :
         Pending(k) ~> (~Pending(k) \/ pc = "failed")

\* Two workers completed two fragments and every contact is written.
C20_Witness ==
    /\ Completed
    /\ ~rerun
    /\ cores = 2
    /\ NumFragments = 2
    /\ Len(full_output) >= 2
    /\ \A k \in DOMAIN frag_log : Len(frag_log[k].takers) = 1
    /\ frag_log[1].takers # frag_log[2].takers
====
